---- MODULE Spec2Model ----
(***************************************************************************)
(* Model of the arXiv alert scripts of research_gate:                      *)
(*   arxiv_topic_alert.py      (query, http_get, filters, dedupe, main)    *)
(*   arxiv_federated_alert.py  (the older variant of the same pipeline)    *)
(*                                                                         *)
(* Strings are sequences of one-character strings, so that lower() and the *)
(* substring test `tok in hay` are computed and not assumed.  Instants are *)
(* integers counted in clock ticks, TicksPerSecond ticks to the second;    *)
(* the text of a timestamp is whole seconds plus a UTC offset.             *)
(***************************************************************************)
EXTENDS Integers, Sequences, FiniteSets, TLC

VARIABLES
    \* ---- calls of the pure functions (filters, dedupe) ----
    fn,          \* name of the function applied last, "" before any call
    args,        \* the arguments of the call
    ret,         \* what the call produced: exception name, list, seen set
    \* ---- the world around main() ----
    now,         \* the system clock, in ticks
    remote,      \* id -> the record the source holds for it (or absent)
    file,        \* content of STATE_FILE
    \* ---- one run of main() ----
    pc,          \* position of the process in main()
    attempt,     \* http_get: loop variable `attempt`
    state,       \* main: `state`, the mapping load_state returned
    seen,        \* main: `seen` / `seen_ids`
    cutoff,      \* main: `cutoff`, in ticks
    entries_raw, \* main: parse_entries(xml)
    after_time,  \* main: filter_by_time(...)
    after_kw,    \* main: filter_by_keywords(...)
    entries,     \* main: dedupe(...)
    shown,       \* the records rendered by digest(): entries[:max_items]
    sent,        \* sinks the digest of this run was delivered to
    exit,        \* exit status of the run, -1 while it runs or if it raised
    cfg,         \* the environment variables the run reads
    \* ---- history, read by the properties only ----
    hist,
    \* ---- one call of a fetcher (http_get, fetch_semantic_scholar) ----
    net          \* the locals of the call and what it has done so far

vars == <<fn, args, ret, now, remote, file, pc, attempt, state, seen, cutoff,
          entries_raw, after_time, after_kw, entries, shown, sent, exit, cfg,
          hist, net>>

\* the variables main() leaves alone
callVars == <<fn, args, ret, net>>
mainVars == <<now, remote, file, pc, attempt, state, seen, cutoff,
              entries_raw, after_time, after_kw, entries, shown, sent, exit,
              cfg, hist>>

(***************************************************************************)
(* Bounds of the model.                                                    *)
(***************************************************************************)
MaxLen   == 2      \* longest list of entries handed to a pure function
MaxTick  == 2      \* the clock stops here
MaxRuns  == 2      \* runs of main() in one behaviour
MaxIds   == 2      \* records the source can come to hold
MaxItems == 1      \* DIGEST_MAX_ITEMS of the runs
MaxResults == 2    \* ARXIV_MAX_RESULTS of the runs
DaysBack == 2      \* ARXIV_DAYS_BACK of the runs, in ticks

TicksPerSecond == 2

(***************************************************************************)
(* Strings.                                                                *)
(***************************************************************************)
LowerChar(c) == IF c = "A" THEN "a" ELSE IF c = "B" THEN "b" ELSE c

\* str.lower()
Lower(s) == [i \in 1..Len(s) |-> LowerChar(s[i])]

\* `tok in hay` for two strings: tok is a contiguous substring of hay
Contains(hay, tok) ==
    \E i \in 0..(Len(hay) - Len(tok)) : SubSeq(hay, i + 1, i + Len(tok)) = tok

\* s.strip() == "" : only whitespace
IsBlank(s) == \A i \in 1..Len(s) : s[i] = " "

(***************************************************************************)
(* Python values that reach the keyword parameters: None, a str, or a list *)
(* whose items are str or None.                                            *)
(***************************************************************************)
PyNone      == [kind |-> "none", s |-> <<>>, items |-> <<>>]
PyStr(s)    == [kind |-> "str",  s |-> s,    items |-> <<>>]
PyList(xs)  == [kind |-> "list", s |-> <<>>, items |-> xs]

\* iteration `for x in v` over a str (its characters) or a list (its items)
Iter(v) ==
    IF v.kind = "str" THEN [i \in 1..Len(v.s) |-> PyStr(<<v.s[i]>>)]
    ELSE v.items

\* bool(v)
Truthy(v) ==
    CASE v.kind = "none" -> FALSE
      [] v.kind = "str"  -> v.s # <<>>
      [] OTHER           -> v.items # <<>>

Raise(e)     == [exc |-> e,  out |-> <<>>, seen |-> {}]
Return(xs)   == [exc |-> "", out |-> xs,   seen |-> {}]
NoCall       == Return(<<>>)


(***************************************************************************)
(* The search query.  A text is a sequence of pieces, each a double quote  *)
(* or a run of other characters; the query is a sequence of tokens.        *)
(***************************************************************************)
Lit(s)  == [t |-> s,     v |-> <<>>]     \* ( ) OR AND all:"*"
Cat(c)  == [t |-> "cat", v |-> <<c>>]    \* cat:c
Ti(kq)  == [t |-> "ti",  v |-> kq]       \* ti:"kq"
Abs(kq) == [t |-> "abs", v |-> kq]       \* abs:"kq"
Verbatim(m) == [t |-> "text", v |-> m]   \* the override, as given

\* sep.join(parts)
RECURSIVE Join(_, _)
Join(parts, sep) ==
    IF parts = <<>> THEN <<>>
    ELSE IF Len(parts) = 1 THEN parts[1]
    ELSE parts[1] \o <<sep>> \o Join(Tail(parts), sep)

\* k.replace('"', '\\"')
Escape(k) == [i \in 1..Len(k) |-> IF k[i] = "\"" THEN "\\\"" ELSE k[i]]

\* getenv / _getenv: the default when the variable is unset or empty
getenv(v, default) == IF v.kind = "none" THEN default ELSE v

\* csv / parse_csv_env: the items of the text that are not blank
csv(v, default) == IF v.kind = "none" THEN default ELSE v.items

DefaultCats == <<"cs.LG", "cs.DC", "stat.ML">>
DefaultKeywords == <<(<<"federated learning">>), (<<"time series">>)>>
\* '(ti:"federated learning" OR abs:"federated learning" OR all:federated)'
FedDefaultMain == <<"(ti:", "\"", "federated learning", "\"", " OR abs:", "\"",
                    "federated learning", "\"", " OR all:federated)">>

\* " OR ".join(f"cat:{c}" for c in cats)
cats_expr(cats) == Join([i \in 1..Len(cats) |-> <<Cat(cats[i])>>], Lit("OR"))

\* the two terms of each keyword, in order
RECURSIVE kw_terms(_)
kw_terms(any_kw) ==
    IF any_kw = <<>> THEN <<>>
    ELSE <<(<<Ti(Escape(Head(any_kw)))>>), (<<Abs(Escape(Head(any_kw)))>>)>>
         \o kw_terms(Tail(any_kw))

\* arxiv_topic_alert.build_query, from the three environment variables
build_query(cats_env, kw_env, main_env) ==
    LET cats   == csv(cats_env, DefaultCats)
        any_kw == csv(kw_env, DefaultKeywords)
        terms  == kw_terms(any_kw)
        main   == getenv(main_env, PyNone)
        parts  == (IF cats # <<>>
                   THEN <<(<<Lit("(")>> \o cats_expr(cats) \o <<Lit(")")>>)>>
                   ELSE <<>>)
                  \o (IF terms # <<>>
                      THEN <<(<<Lit("(")>> \o Join(terms, Lit("OR")) \o <<Lit(")")>>)>>
                      ELSE <<>>)
                  \o (IF main.kind # "none"
                      THEN <<(<<Lit("("), Verbatim(main.s), Lit(")")>>)>>
                      ELSE <<>>)
    IN  IF parts # <<>> THEN Join(parts, Lit("AND")) ELSE <<Lit("all:*")>>

\* arxiv_federated_alert.build_search_query(categories, main_query)
build_search_query(categories, main_query) ==
    IF categories # <<>> /\ main_query # <<>>
    THEN <<Lit("(")>> \o cats_expr(categories) \o <<Lit(")"), Lit("AND"),
           Verbatim(main_query)>>
    ELSE IF main_query # <<>> THEN <<Verbatim(main_query)>>
    ELSE cats_expr(categories)


(***************************************************************************)
(* Keyword filters.                                                        *)
(***************************************************************************)
\* the text matched against: (e["title"]+" "+e["summary"]).lower()
Haystack(e) == Lower(e.title \o <<" ">> \o e.summary)

\* [s.lower() for s in v]: TypeError when v is None, AttributeError when an
\* item is None; over a str it walks the characters
LowerAll(v) ==
    IF v.kind = "none" THEN Raise("TypeError")
    ELSE IF \E i \in 1..Len(Iter(v)) : Iter(v)[i].kind = "none"
         THEN Raise("AttributeError")
         ELSE Return([i \in 1..Len(Iter(v)) |-> Lower(Iter(v)[i].s)])

\* KeepByKeywords with the required tokens tested by any() instead of all()
KeepByKeywordsAnyRequired(e, R, A) ==
    /\ ~ (R # <<>> /\ ~ (\E i \in 1..Len(R) : Contains(Haystack(e), R[i])))
    /\ ~ (A # <<>> /\ ~ (\E i \in 1..Len(A) : Contains(Haystack(e), A[i])))

\* the two `continue` tests of filter_by_keywords for one entry
KeepByKeywords(e, R, A) ==
    /\ ~ (R # <<>> /\ ~ (\A i \in 1..Len(R) : Contains(Haystack(e), R[i])))
    /\ ~ (A # <<>> /\ ~ (\E i \in 1..Len(A) : Contains(Haystack(e), A[i])))

RECURSIVE KeywordLoop(_, _, _)
KeywordLoop(es, R, A) ==
    IF es = <<>> THEN <<>>
    ELSE (IF KeepByKeywords(Head(es), R, A) THEN <<Head(es)>> ELSE <<>>)
         \o KeywordLoop(Tail(es), R, A)

filter_by_keywords(es, required_all, any_keywords) ==
    LET R == LowerAll(required_all)
        A == LowerAll(any_keywords)
    IN  IF R.exc # "" THEN Raise(R.exc)
        ELSE IF A.exc # "" THEN Raise(A.exc)
        ELSE IF es.kind = "none" THEN Raise("TypeError")
        ELSE Return(KeywordLoop(es.items, R.out, A.out))

\* all(tok.lower() in hay for tok in toks), evaluated left to right and
\* stopping at the first False; "raise" when tok is None
RECURSIVE AllIn(_, _)
AllIn(toks, hay) ==
    IF toks = <<>> THEN "true"
    ELSE IF Head(toks).kind = "none" THEN "raise"
    ELSE IF Contains(hay, Lower(Head(toks).s)) THEN AllIn(Tail(toks), hay)
    ELSE "false"

\* any(tok.lower() in hay for tok in toks), stopping at the first True
RECURSIVE AnyIn(_, _)
AnyIn(toks, hay) ==
    IF toks = <<>> THEN "false"
    ELSE IF Head(toks).kind = "none" THEN "raise"
    ELSE IF Contains(hay, Lower(Head(toks).s)) THEN "true"
    ELSE AnyIn(Tail(toks), hay)

RECURSIVE FilterEntriesLoop(_, _, _)
FilterEntriesLoop(es, required_all, any_keywords) ==
    IF es = <<>> THEN Return(<<>>)
    ELSE LET hay    == Lower(Head(es).title \o <<" ">> \o Head(es).summary)
             ok_all == IF Truthy(required_all)
                       THEN AllIn(Iter(required_all), hay) ELSE "true"
             ok_any == IF Truthy(any_keywords)
                       THEN AnyIn(Iter(any_keywords), hay) ELSE "true"
             rest   == FilterEntriesLoop(Tail(es), required_all, any_keywords)
         IN  IF ok_all = "raise" \/ ok_any = "raise" THEN Raise("AttributeError")
             ELSE IF rest.exc # "" THEN rest
             ELSE Return((IF ok_all = "true" /\ ok_any = "true"
                          THEN <<Head(es)>> ELSE <<>>) \o rest.out)

filter_entries(es, required_all, any_keywords) ==
    IF es.kind = "none" THEN Raise("TypeError")
    ELSE FilterEntriesLoop(es.items, required_all, any_keywords)

(***************************************************************************)
(* Timestamps.  The text of a timestamp is [fmt, t, off]: its format, the  *)
(* wall-clock seconds it shows and the UTC offset it carries, in seconds.  *)
(*   "iso"     2025-11-10T18:59:53Z / +02:00   (what the Atom feed holds)  *)
(*   "rfc2822" Mon, 10 Nov 2025 18:59:53 +0000                             *)
(*   "empty"   the element is missing                                      *)
(*   "garbage" anything else                                               *)
(***************************************************************************)
None    == [none |-> TRUE,  v |-> 0]
Some(x) == [none |-> FALSE, v |-> x]

\* the instant a well-formed text denotes, normalised to UTC, in ticks
UtcInstant(ts) == (ts.t - ts.off) * TicksPerSecond

rfc3339_to_naive_utc(ts) ==
    CASE ts.fmt = "empty"   -> None
      [] ts.fmt = "iso"     -> Some(UtcInstant(ts))   \* datetime.fromisoformat
      [] ts.fmt = "rfc2822" -> Some(UtcInstant(ts))   \* parsedate_to_datetime
      [] OTHER              -> None

\* email.utils.parsedate_to_datetime only reads RFC 2822 dates: on any other
\* text it raises ValueError
parse_rfc3339(ts) ==
    IF ts.fmt = "rfc2822" THEN [exc |-> "", v |-> UtcInstant(ts)]
    ELSE [exc |-> "ValueError", v |-> 0]

\* max([x for x in [a, b] if x], default=None)
MaxPresent(a, b) ==
    CASE a.none /\ b.none -> None
      [] a.none           -> b
      [] b.none           -> a
      [] OTHER            -> IF a.v >= b.v THEN a ELSE b

RECURSIVE TimeLoop(_, _)
TimeLoop(es, c) ==
    IF es = <<>> THEN <<>>
    ELSE LET t == MaxPresent(rfc3339_to_naive_utc(Head(es).published),
                             rfc3339_to_naive_utc(Head(es).updated))
         IN  (IF ~ t.none /\ t.v >= c THEN <<Head(es)>> ELSE <<>>)
             \o TimeLoop(Tail(es), c)

filter_by_time(es, c) == Return(TimeLoop(es, c))

RECURSIVE entries_newer_than(_, _)
entries_newer_than(es, c) ==
    IF es = <<>> THEN Return(<<>>)
    ELSE LET e   == Head(es)
             pub == IF e.published.fmt # "empty" THEN parse_rfc3339(e.published)
                    ELSE [exc |-> "", v |-> 0]
             upd == IF e.updated.fmt # "empty" THEN parse_rfc3339(e.updated)
                    ELSE [exc |-> "", v |-> 0]
             t   == MaxPresent(IF e.published.fmt = "empty" THEN None ELSE Some(pub.v),
                               IF e.updated.fmt = "empty" THEN None ELSE Some(upd.v))
             rest == entries_newer_than(Tail(es), c)
         IN  IF pub.exc # "" THEN Raise(pub.exc)
             ELSE IF upd.exc # "" THEN Raise(upd.exc)
             ELSE IF rest.exc # "" THEN rest
             ELSE Return((IF ~ t.none /\ t.v >= c THEN <<e>> ELSE <<>>) \o rest.out)

(***************************************************************************)
(* The date filters of the printing scripts.  The arxiv package hands over *)
(* result.published as a datetime, or None when the feed gave no date.     *)
(***************************************************************************)
published_of(e) ==
    IF e.published.fmt \in {"iso", "rfc2822"} THEN Some(UtcInstant(e.published))
    ELSE None

\* ARXIV_KEYWORDS of the runs, lowercased
weekly_keywords == <<(<<"a">>)>>

\* scripts/arxiv_weekly.py, the loop of main: only a result that has a date
\* older than `since` is skipped
RECURSIVE scripts_weekly_matches(_, _)
scripts_weekly_matches(es, since) ==
    IF es = <<>> THEN <<>>
    ELSE (IF ~ published_of(Head(es)).none /\ published_of(Head(es)).v < since
          THEN <<>> ELSE <<Head(es)>>)
         \o scripts_weekly_matches(Tail(es), since)

\* arxiv_weekly.py, the loop of main: a result without a date is skipped,
\* then one that holds none of the keywords in its title or summary
RECURSIVE weekly_matches(_, _)
weekly_matches(es, since) ==
    IF es = <<>> THEN <<>>
    ELSE (IF published_of(Head(es)).none \/ published_of(Head(es)).v < since
          THEN <<>>
          ELSE IF /\ weekly_keywords # <<>>
                  /\ ~ \E i \in 1..Len(weekly_keywords) :
                         \/ Contains(Lower(Head(es).title), weekly_keywords[i])
                         \/ Contains(Lower(Head(es).summary), weekly_keywords[i])
          THEN <<>>
          ELSE <<Head(es)>>)
         \o weekly_matches(Tail(es), since)

(***************************************************************************)
(* semanticscholar_digest.py: the test of one row of a page.  The text of  *)
(* publicationDate shows a day (t counts days); `since` is a day, and a    *)
(* year is DaysPerYear days.                                               *)
(***************************************************************************)
DaysPerYear == 2

\* _parse_pubdate_utc: datetime.fromisoformat or None
parse_pubdate_utc(ts) == IF ts.fmt = "iso" THEN Some(ts.t) ELSE None

\* S2_KEYWORDS of the runs after normalize_kw_list, S2_INTERSECT_KW
s2_keywords == <<(<<"a">>)>>
s2_intersect == FALSE

text_has_keywords(text, keywords, intersect) ==
    \/ keywords = <<>>
    \/ IF intersect
       THEN \A i \in 1..Len(keywords) : Contains(Lower(text), keywords[i])
       ELSE \E i \in 1..Len(keywords) : Contains(Lower(text), keywords[i])

\* lines 128-141: `keep`
s2_keep(p, since) ==
    IF p.publicationDate.fmt # "empty"
    THEN /\ ~ parse_pubdate_utc(p.publicationDate).none
         /\ parse_pubdate_utc(p.publicationDate).v >= since
    ELSE IF ~ p.year.none /\ p.year.v # 0
    THEN p.year.v >= since \div DaysPerYear
    ELSE FALSE

\* lines 143-157: the row is appended to results (S2_FIELDS is empty)
s2_appended(p, since) ==
    /\ s2_keep(p, since)
    /\ \/ text_has_keywords(p.title, s2_keywords, s2_intersect)
       \/ text_has_keywords(p.abstract, s2_keywords, s2_intersect)

\* the rows of one page that are appended, with no limit on their number
RECURSIVE s2_page_matches(_, _)
s2_page_matches(rows, since) ==
    IF rows = <<>> THEN <<>>
    ELSE (IF s2_appended(Head(rows), since) THEN <<Head(rows)>> ELSE <<>>)
         \o s2_page_matches(Tail(rows), since)

(***************************************************************************)
(* Deduplication.  The result carries the seen set as the call leaves it.  *)
(***************************************************************************)
RECURSIVE DedupeLoop(_, _)
DedupeLoop(es, s) ==
    IF es = <<>> THEN <<>>
    ELSE (IF Head(es).id \notin s THEN <<Head(es)>> ELSE <<>>)
         \o DedupeLoop(Tail(es), s)

\* dedupe that marks each id as seen while it filters
RECURSIVE MarkingLoop(_, _)
MarkingLoop(es, s) ==
    IF es = <<>> THEN [out |-> <<>>, seen |-> s]
    ELSE LET rest == MarkingLoop(Tail(es), s \cup {Head(es).id})
         IN  [out  |-> (IF Head(es).id \notin s THEN <<Head(es)>> ELSE <<>>) \o rest.out,
              seen |-> rest.seen]

dedupeMarking(es, s) ==
    [exc |-> "", out |-> MarkingLoop(es, s).out, seen |-> MarkingLoop(es, s).seen]

dedupe(es, s) == [exc |-> "", out |-> DedupeLoop(es, s), seen |-> s]

dedupe_by_id(es, seen_ids) ==
    [exc |-> "", out |-> DedupeLoop(es, seen_ids), seen |-> seen_ids]


(***************************************************************************)
(* The state file.  Its content is JSON text, a sequence of tokens; the     *)
(* object json.load builds from it is a mapping that says which of the two *)
(* keys it has, or some other JSON value.  An id string is written as its  *)
(* number, the text of an instant as its seconds.                          *)
(***************************************************************************)
\* JSON values: a list of id strings, the ISO text of second n, a string that
\* is no date, null, a number
JList(q) == [k |-> "list", items |-> q,    n |-> 0]
JIso(x)  == [k |-> "iso",  items |-> <<>>, n |-> x]
JText    == [k |-> "text", items |-> <<>>, n |-> 0]
JNull    == [k |-> "null", items |-> <<>>, n |-> 0]
JNum(x)  == [k |-> "num",  items |-> <<>>, n |-> x]

\* {} ; a key that is absent holds JNull here and is never read
EmptyDict == [kind |-> "dict", has_seen |-> FALSE, seen_ids |-> JNull,
              has_last |-> FALSE, last_run_iso |-> JNull]

\* a JSON document that is not an object: the array []
EmptyArray == [EmptyDict EXCEPT !.kind = "list"]

Tok(t)     == [tok |-> t, n |-> 0]
TokN(t, x) == [tok |-> t, n |-> x]

\* the text json.dump writes for one value
Encode(v) ==
    CASE v.k = "list" -> <<Tok("[")>>
                         \o [i \in 1..Len(v.items) |-> TokN("str", v.items[i])]
                         \o <<Tok("]")>>
      [] v.k = "iso"  -> <<TokN("str", v.n)>>
      [] v.k = "text" -> <<Tok("text")>>
      [] v.k = "null" -> <<Tok("null")>>
      [] OTHER        -> <<TokN("num", v.n)>>

\* a dump that stops before the closing brace
json_dump_cut(obj) ==
    <<Tok("{")>>
    \o (IF obj.has_seen THEN <<Tok("seen_ids")>> \o Encode(obj.seen_ids) ELSE <<>>)
    \o (IF obj.has_last THEN <<Tok("last_run_iso")>> \o Encode(obj.last_run_iso) ELSE <<>>)

\* json.dump(obj, f)
json_dump(obj) ==
    IF obj.kind # "dict" THEN <<Tok("["), Tok("]")>>
    ELSE <<Tok("{")>>
         \o (IF obj.has_seen THEN <<Tok("seen_ids")>> \o Encode(obj.seen_ids) ELSE <<>>)
         \o (IF obj.has_last THEN <<Tok("last_run_iso")>> \o Encode(obj.last_run_iso) ELSE <<>>)
         \o <<Tok("}")>>

ParseFails == [ok |-> FALSE, val |-> JNull, rest |-> <<>>]

\* one JSON value at the head of toks, and the tokens after it
ParseValue(toks) ==
    IF toks = <<>> THEN ParseFails
    ELSE CASE Head(toks).tok = "str"  -> [ok |-> TRUE, val |-> JIso(Head(toks).n), rest |-> Tail(toks)]
           [] Head(toks).tok = "text" -> [ok |-> TRUE, val |-> JText, rest |-> Tail(toks)]
           [] Head(toks).tok = "null" -> [ok |-> TRUE, val |-> JNull, rest |-> Tail(toks)]
           [] Head(toks).tok = "num"  -> [ok |-> TRUE, val |-> JNum(Head(toks).n), rest |-> Tail(toks)]
           [] Head(toks).tok = "["    ->
                IF \E j \in 2..Len(toks) : toks[j].tok = "]"
                THEN LET j == CHOOSE j \in 2..Len(toks) :
                                 /\ toks[j].tok = "]"
                                 /\ \A i \in 2..(j - 1) : toks[i].tok # "]"
                     IN  IF \A i \in 2..(j - 1) : toks[i].tok = "str"
                         THEN [ok |-> TRUE,
                               val |-> JList([i \in 1..(j - 2) |-> toks[i + 1].n]),
                               rest |-> SubSeq(toks, j + 1, Len(toks))]
                         ELSE ParseFails
                ELSE ParseFails
           [] OTHER -> ParseFails

\* the members of an object up to its closing brace, added to the mapping d
RECURSIVE ParseMembers(_, _)
ParseMembers(toks, d) ==
    IF toks = <<>> THEN [ok |-> FALSE, val |-> d]
    ELSE IF Head(toks).tok = "}" THEN [ok |-> Len(toks) = 1, val |-> d]
    ELSE IF Head(toks).tok \notin {"seen_ids", "last_run_iso"} THEN [ok |-> FALSE, val |-> d]
    ELSE LET v == ParseValue(Tail(toks))
         IN  IF ~ v.ok THEN [ok |-> FALSE, val |-> d]
             ELSE ParseMembers(v.rest,
                     IF Head(toks).tok = "seen_ids"
                     THEN [d EXCEPT !.has_seen = TRUE, !.seen_ids = v.val]
                     ELSE [d EXCEPT !.has_last = TRUE, !.last_run_iso = v.val])

\* json.load(f): the object, or ok = FALSE where it raises JSONDecodeError
json_load(toks) ==
    IF toks = <<>> THEN [ok |-> FALSE, val |-> EmptyDict]
    ELSE IF Head(toks).tok = "{" THEN ParseMembers(Tail(toks), EmptyDict)
    ELSE [ok |-> ParseValue(toks).ok /\ ParseValue(toks).rest = <<>>,
          val |-> EmptyArray]

\* the file: absent; or present, with its text, and open() works on it or
\* raises OSError (no permission, a directory)
NoFile    == [exists |-> FALSE, readable |-> TRUE, content |-> <<>>]

\* both scripts: {} when the file is absent, cannot be opened or does not parse
load_state(f) ==
    IF ~ f.exists \/ ~ f.readable THEN EmptyDict
    ELSE IF json_load(f.content).ok THEN json_load(f.content).val
    ELSE EmptyDict

\* open(path, "w") raises on a path it may not write
CanWrite(f) == ~ f.exists \/ f.readable

save_state(obj) == [exists |-> TRUE, readable |-> TRUE, content |-> json_dump(obj)]

\* datetime.isoformat(timespec="seconds"): the sub-second part is dropped
isoformat(t) == t \div TicksPerSecond

\* datetime.fromisoformat of such a text
fromisoformat(txt) == txt * TicksPerSecond

\* set(state.get("seen_ids", [])): TypeError on a value that is not iterable;
\* a string gives its characters, none of them the id of a record
set_seen_ids(st) ==
    IF ~ st.has_seen THEN [exc |-> "", v |-> {}]
    ELSE CASE st.seen_ids.k = "list" -> [exc |-> "", v |-> {st.seen_ids.items[i] : i \in 1..Len(st.seen_ids.items)}]
           [] st.seen_ids.k \in {"iso", "text"} -> [exc |-> "", v |-> {0}]
           [] OTHER -> [exc |-> "TypeError", v |-> {}]

\* last = state.get("last_run_iso");
\* cutoff = datetime.fromisoformat(last) if last else <fallback>
cutoff_of(st, fallback) ==
    IF ~ st.has_last THEN [exc |-> "", v |-> fallback]
    ELSE CASE st.last_run_iso.k = "null" -> [exc |-> "", v |-> fallback]
           [] st.last_run_iso.k = "num" /\ st.last_run_iso.n = 0 -> [exc |-> "", v |-> fallback]
           [] st.last_run_iso.k = "list" /\ st.last_run_iso.items = <<>> -> [exc |-> "", v |-> fallback]
           [] st.last_run_iso.k = "iso"  -> [exc |-> "", v |-> fromisoformat(st.last_run_iso.n)]
           [] st.last_run_iso.k = "text" -> [exc |-> "ValueError", v |-> 0]
           [] OTHER -> [exc |-> "TypeError", v |-> 0]

Range(q) == {q[i] : i \in 1..Len(q)}

Min(S) == CHOOSE x \in S : \A y \in S : x <= y

\* sorted(S)
RECURSIVE sorted(_)
sorted(S) == IF S = {} THEN <<>> ELSE <<Min(S)>> \o sorted(S \ {Min(S)})

IdsOf(es) == {es[i].id : i \in 1..Len(es)}

\* a run that forgets the ids it reported
seen_update_none(s, es) == s

\* seen.update(e["id"] for e in entries)
seen_update(s, es) == s \cup IdsOf(es)

\* entries[:max_items], the records digest() / format_digest() render
Rendered(es, max_items) == SubSeq(es, 1, IF Len(es) < max_items THEN Len(es) ELSE max_items)

(***************************************************************************)
(* The remote source.                                                      *)
(***************************************************************************)
Ids == 1..MaxIds

Absent == [present |-> FALSE, sec |-> 0]

Title(i) == IF i % 3 = 0 THEN <<"b">> ELSE IF i % 2 = 1 THEN <<"a">> ELSE <<"A">>

\* the entry parse_entries / parse_atom builds for record i of the feed
Entry(i, fmt) ==
    [id |-> i, title |-> Title(i), summary |-> <<"b">>,
     published |-> [fmt |-> fmt, t |-> remote[i].sec, off |-> 0],
     updated   |-> [fmt |-> fmt, t |-> remote[i].sec, off |-> 0]]

Present == {i \in Ids : remote[i].present}

\* the answers the source can give to one request: the max_results most
\* recent records, most recent first (ties in any order)
Feed(max_results) ==
    LET n == IF Cardinality(Present) < max_results
             THEN Cardinality(Present) ELSE max_results
    IN  {q \in [1..n -> Present] :
           /\ \A i, j \in 1..n : i < j =>
                 /\ q[i] # q[j]
                 /\ remote[q[i]].sec >= remote[q[j]].sec
           /\ \A x \in Present \ Range(q) :
                 \A i \in 1..n : remote[x].sec <= remote[q[i]].sec}


(***************************************************************************)
(* main(): configuration read from the environment.                        *)
(***************************************************************************)
max_retries == 5

\* csv("ARXIV_REQUIRED_KEYWORDS"), csv("ARXIV_ANY_KEYWORDS"): lists of
\* stripped, non-empty strings
required_all_env == PyList(<<PyStr(<<"a">>)>>)
any_keywords_env == PyList(<<PyStr(<<"B">>)>>)

\* the deployments tried: the feed carries ISO timestamps; the older script
\* is also run against RFC 2822 dates, the only ones it can read
Configs ==
    {[variant |-> v.variant, fmt |-> v.fmt, max_results |-> MaxResults,
      max_items |-> MaxItems, smtp |-> TRUE, slack |-> TRUE] :
        v \in {[variant |-> "topic",     fmt |-> "iso"],
               [variant |-> "federated", fmt |-> "iso"],
               [variant |-> "federated", fmt |-> "rfc2822"]}}

NoHist ==
    [runs |-> 0,              \* runs of main() started so far
     saved |-> FALSE,         \* save_state was called in the current run
     hasFirst |-> FALSE,      \* a first run has started ...
     firstCutoff |-> 0,       \* ... and this was its cutoff
     loaded |-> {},           \* the seen set the current run loaded
     digested |-> {},         \* ids that appeared in the digest of some run
     offered |-> {},          \* ids the source held at a fetch that it answered
     prevOk |-> FALSE,        \* the run before this one ended with status 0 ...
     prevRaw |-> {},          \* ... having been given these records
     same |-> FALSE,          \* ... and this run was given the same ones
     tried |-> {},            \* sinks a delivery was attempted to in this run
     failed |-> {},           \* sinks whose delivery raised in this run
     answered |-> FALSE,      \* the fetch of this run got a response it could parse
     cut |-> FALSE]           \* the process died inside save_state in this run

MainInit ==
    /\ now = 0
    /\ remote = [i \in Ids |-> Absent]
    /\ file = NoFile
    /\ pc = "idle"
    /\ attempt = 0
    /\ state = EmptyDict
    /\ seen = {}
    /\ cutoff = 0
    /\ entries_raw = <<>>
    /\ after_time = <<>>
    /\ after_kw = <<>>
    /\ entries = <<>>
    /\ shown = <<>>
    /\ sent = {}
    /\ exit = -1
    /\ hist = NoHist

(***************************************************************************)
(* The world: the clock advances, the source comes to hold a new record    *)
(* stamped with the current second.                                        *)
(***************************************************************************)
Tick ==
    /\ now < MaxTick
    /\ now' = now + 1
    /\ UNCHANGED <<callVars, remote, file, pc, attempt, state, seen, cutoff,
                   entries_raw, after_time, after_kw, entries, shown, sent,
                   exit, cfg, hist>>

Publish(i) ==
    /\ ~ remote[i].present
    /\ remote' = [remote EXCEPT ![i] = [present |-> TRUE, sec |-> now \div TicksPerSecond]]
    /\ UNCHANGED <<callVars, now, file, pc, attempt, state, seen, cutoff,
                   entries_raw, after_time, after_kw, entries, shown, sent,
                   exit, cfg, hist>>

(***************************************************************************)
(* main(), first part: load the state and derive the cutoff.               *)
(* arxiv_topic_alert.py 256-266, arxiv_federated_alert.py 268-293.         *)
(***************************************************************************)
Start ==
    /\ pc \in {"idle", "done", "raised"}
    /\ hist.runs < MaxRuns
    /\ LET st == load_state(file)
           \* state.get on an object that is no mapping: AttributeError
           sn == IF st.kind = "dict" THEN set_seen_ids(st)
                 ELSE [exc |-> "AttributeError", v |-> {}]
           co == IF st.kind = "dict" THEN cutoff_of(st, now - DaysBack)
                 ELSE [exc |-> "AttributeError", v |-> 0]
           ok == sn.exc = "" /\ co.exc = ""
       IN  /\ state' = st
           /\ seen' = sn.v
           /\ cutoff' = co.v
           /\ pc' = IF ok THEN "fetch" ELSE "raised"
           /\ hist' = [hist EXCEPT
                 !.runs = @ + 1, !.saved = FALSE, !.same = FALSE,
                 !.tried = {}, !.failed = {}, !.answered = FALSE,
                 !.cut = FALSE,
                 !.hasFirst = @ \/ ok,
                 !.firstCutoff = IF hist.hasFirst THEN @ ELSE co.v,
                 !.loaded = sn.v,
                 !.prevOk = (pc = "done" /\ exit = 0),
                 !.prevRaw = IF pc = "done" /\ exit = 0
                             THEN IdsOf(entries_raw) ELSE {}]
    /\ attempt' = 0
    /\ entries_raw' = <<>>
    /\ after_time' = <<>>
    /\ after_kw' = <<>>
    /\ entries' = <<>>
    /\ shown' = <<>>
    /\ sent' = {}
    /\ exit' = -1
    /\ UNCHANGED <<callVars, now, remote, file, cfg>>


(***************************************************************************)
(* main(), the fetch and the filters.                                      *)
(***************************************************************************)
\* the entries parsed from the answer q of the source
Parsed(q) == [i \in 1..Len(q) |-> Entry(q[i], cfg.fmt)]

\* the process dies on an uncaught exception; nothing is saved
Crash(raw) ==
    /\ pc' = "raised"
    /\ entries_raw' = raw
    /\ UNCHANGED <<after_time, after_kw, entries, shown, sent, exit, file,
                   state, seen>>

\* arxiv_topic_alert.main 270-317: parse, filter, dedupe, render the digest
Pipeline(raw, got, answered) ==
    LET at == filter_by_time(raw, cutoff)
        kw == filter_by_keywords(PyList(at.out), required_all_env, any_keywords_env)
        es == dedupe(kw.out, seen)
    IN  IF kw.exc # ""
        THEN Crash(raw) /\ hist' = [hist EXCEPT !.offered = @ \cup got,
                                                !.answered = answered]
        ELSE /\ pc' = "digested"
             /\ entries_raw' = raw
             /\ after_time' = at.out
             /\ after_kw' = kw.out
             /\ entries' = es.out
             /\ seen' = es.seen
             /\ shown' = Rendered(es.out, cfg.max_items)
             /\ hist' = [hist EXCEPT
                   !.offered = @ \cup got,
                   !.answered = answered,
                   !.digested = @ \cup IdsOf(Rendered(es.out, cfg.max_items)),
                   !.same = hist.prevOk /\ IdsOf(raw) = hist.prevRaw,
                   !.prevRaw = {}]
             /\ UNCHANGED <<sent, exit, file, state>>

\* http_get: one pass of the loop ends in a decodable answer
HttpGetOk ==
    /\ pc = "fetch" /\ cfg.variant = "topic"
    /\ attempt < max_retries
    /\ \E q \in Feed(cfg.max_results) : Pipeline(Parsed(q), Present, TRUE)
    /\ UNCHANGED <<callVars, now, remote, attempt, cutoff, cfg>>

\* http_get returns a body that is not XML: parse_entries raises ParseError
HttpGetGarbled ==
    /\ pc = "fetch" /\ cfg.variant = "topic"
    /\ attempt < max_retries
    /\ Crash(<<>>)
    /\ UNCHANGED <<callVars, now, remote, attempt, cutoff, cfg, hist>>

\* http_get: HTTP 429/5xx, URLError or timeout: sleep and try again
HttpGetRetry ==
    /\ pc = "fetch" /\ cfg.variant = "topic"
    /\ attempt < max_retries
    /\ attempt' = attempt + 1
    /\ UNCHANGED <<callVars, now, remote, file, pc, state, seen, cutoff,
                   entries_raw, after_time, after_kw, entries, shown, sent,
                   exit, cfg, hist>>

\* http_get: any other HTTPError is raised again, and main does not catch it
HttpGetFatal ==
    /\ pc = "fetch" /\ cfg.variant = "topic"
    /\ attempt < max_retries
    /\ Crash(<<>>)
    /\ UNCHANGED <<callVars, now, remote, attempt, cutoff, cfg, hist>>

\* http_get: the loop ran out; the empty feed is returned
HttpGetExhausted ==
    /\ pc = "fetch" /\ cfg.variant = "topic"
    /\ attempt = max_retries
    /\ Pipeline(<<>>, {}, FALSE)
    /\ UNCHANGED <<callVars, now, remote, attempt, cutoff, cfg>>

\* the Slack post skipped once the email has raised
slack_attempted_after_email(wanted, configured, emailRaised) ==
    wanted /\ configured /\ ~ emailRaised

\* `if entries and smtp_configured: try: send_email(...) except Exception`
email_attempted(wanted, configured) == wanted /\ configured

\* `if entries and slack_configured: try: send_slack(...) except Exception`,
\* reached whether or not the email raised
slack_attempted(wanted, configured, emailRaised) == wanted /\ configured

\* the sends of one run and the save after them; each send succeeds or raises
Deliver(wanted) ==
    \E emailOk, slackOk \in BOOLEAN :
       LET em == email_attempted(wanted, cfg.smtp)
           sl == slack_attempted(wanted, cfg.slack, em /\ ~ emailOk)
       IN  /\ sent' = (IF em /\ emailOk THEN {"email"} ELSE {})
                      \cup (IF sl /\ slackOk THEN {"slack"} ELSE {})
           /\ seen' = seen_update(seen, entries)
           /\ state' = [state EXCEPT
                 !.has_seen = TRUE, !.seen_ids = JList(sorted(seen')),
                 !.has_last = TRUE, !.last_run_iso = JIso(isoformat(now))]
           /\ IF CanWrite(file)
              THEN /\ file' = save_state(state')
                   /\ pc' = "done"
                   /\ exit' = 0
              ELSE /\ pc' = "raised"
                   /\ UNCHANGED <<file, exit>>
           /\ hist' = [hist EXCEPT
                 !.saved = CanWrite(file),
                 !.tried = (IF em THEN {"email"} ELSE {})
                           \cup (IF sl THEN {"slack"} ELSE {}),
                 !.failed = (IF em /\ ~ emailOk THEN {"email"} ELSE {})
                            \cup (IF sl /\ ~ slackOk THEN {"slack"} ELSE {})]

\* arxiv_topic_alert.main 319-336: each send is wrapped in its own try (a
\* failed or unconfigured sink sends nothing), then the state is saved
DeliverAndSave ==
    /\ pc = "digested" /\ cfg.variant = "topic"
    /\ Deliver(entries # <<>>)
    /\ UNCHANGED <<callVars, now, remote, attempt, cutoff, entries_raw,
                   after_time, after_kw, entries, shown, cfg>>

(***************************************************************************)
(* arxiv_federated_alert.main                                              *)
(***************************************************************************)
\* 294-319: the query answers; filters; the zero-entry path saves at once
FedQueryOk ==
    /\ pc = "fetch" /\ cfg.variant = "federated"
    /\ \E q \in Feed(cfg.max_results) :
         LET raw == Parsed(q)
             at  == entries_newer_than(raw, cutoff)
             kw  == filter_entries(PyList(at.out), required_all_env, any_keywords_env)
             es  == dedupe_by_id(kw.out, seen)
         IN  IF at.exc # "" \/ kw.exc # ""
                THEN /\ Crash(raw)
                     /\ hist' = [hist EXCEPT !.offered = @ \cup Present,
                                               !.answered = TRUE]
                ELSE /\ entries_raw' = raw
                     /\ after_time' = at.out
                     /\ after_kw' = kw.out
                     /\ entries' = es.out
                     /\ seen' = es.seen
                     /\ IF es.out = <<>>
                        THEN /\ state' = [state EXCEPT !.has_last = TRUE,
                                             !.last_run_iso = JIso(isoformat(now))]
                             /\ file' = IF CanWrite(file) THEN save_state(state') ELSE file
                             /\ pc' = IF CanWrite(file) THEN "done" ELSE "raised"
                             /\ exit' = IF CanWrite(file) THEN 0 ELSE exit
                             /\ shown' = <<>>
                             /\ hist' = [hist EXCEPT !.saved = CanWrite(file),
                                   !.answered = TRUE,
                                   !.offered = @ \cup Present,
                                   !.same = hist.prevOk /\ IdsOf(raw) = hist.prevRaw,
                                   !.prevRaw = {}]
                             /\ UNCHANGED sent
                        ELSE /\ shown' = Rendered(es.out, cfg.max_items)
                             /\ pc' = "digested"
                             /\ hist' = [hist EXCEPT
                                   !.answered = TRUE,
                                   !.offered = @ \cup Present,
                                   !.digested = @ \cup IdsOf(Rendered(es.out, cfg.max_items)),
                                   !.same = hist.prevOk /\ IdsOf(raw) = hist.prevRaw,
                                   !.prevRaw = {}]
                             /\ UNCHANGED <<sent, exit, file, state>>
    /\ UNCHANGED <<callVars, now, remote, attempt, cutoff, cfg>>

\* 300: parse_atom is outside the try: a body that is not XML ends the run
FedQueryGarbled ==
    /\ pc = "fetch" /\ cfg.variant = "federated"
    /\ Crash(<<>>)
    /\ UNCHANGED <<callVars, now, remote, attempt, cutoff, cfg, hist>>

\* 296-298: any exception of arxiv_query: return 2, nothing saved
FedQueryFails ==
    /\ pc = "fetch" /\ cfg.variant = "federated"
    /\ pc' = "done"
    /\ exit' = 2
    /\ UNCHANGED <<callVars, now, remote, file, attempt, state, seen, cutoff,
                   entries_raw, after_time, after_kw, entries, shown, sent,
                   cfg, hist>>

\* 321-338: both sends, each in its own try, then the state is saved; a send
\* to a sink that is not configured returns at once
FedDeliverAndSave ==
    /\ pc = "digested" /\ cfg.variant = "federated"
    /\ Deliver(TRUE)
    /\ UNCHANGED <<callVars, now, remote, attempt, cutoff, entries_raw,
                   after_time, after_kw, entries, shown, cfg>>

(***************************************************************************)
(* The fetchers.  Durations are counted in clock ticks.  `net` holds the   *)
(* locals of one call and, for the properties, what the call has done.     *)
(***************************************************************************)
base_backoff == 3        \* http_get: `base_backoff = 3`, seconds
\* fetch_semantic_scholar: `base_sleep: float = 1.5`, in ticks
base_sleep   == (15 * TicksPerSecond) \div 10
\* S2_DELAY, "1.5" unless set, in ticks
delay        == (15 * TicksPerSecond) \div 10
\* `current_page_size = max(10, min(page_size, 100))`
min_page_size == 10
max_page_size == 100
\* `max(100, current_page_size * 3)`
stale_floor   == 100

\* random.uniform(0, 1) and random.uniform(0, 0.5), in ticks
http_jitter == 0..TicksPerSecond
s2_jitter   == 0..(TicksPerSecond \div 2)

Max(a, b) == IF a >= b THEN a ELSE b
Least(a, b) == IF a <= b THEN a ELSE b

\* a backoff that does not grow
backoff_flat(base, k) == base

\* base * (2 ** k)
backoff(base, k) == base * 2^k

\* the retry test with the bound one too low
retries_exhausted_early(attempt_, max_retries_) == attempt_ >= max_retries_

\* _request_with_backoff: `if attempt > max_retries`
retries_exhausted(attempt_, max_retries_) == attempt_ > max_retries_

\* http_get: `if e.code in (429, 500, 502, 503, 504)`
http_get_retriable(code) == code \in {429, 500, 502, 503, 504}

\* how the call of http_get / _request_with_backoff that ended last did so,
\* until the next call starts
NoneEnded == [outcome |-> "", status |-> 0, requests |-> 0]
Ended(how, status, requests) ==
    [outcome |-> how, status |-> status, requests |-> requests]

NoNet ==
    [who |-> "",            \* "http_get" or "s2" (fetch_semantic_scholar)
     pc |-> "idle",         \* "get": the next request is about to be issued
     N |-> 0,               \* max_retries
     attempt |-> 0,         \* `attempt`
     requests |-> 0,        \* requests issued by the current call of the GET loop
     prev_sleep |-> -1,     \* the backoff sleep before the last one, if any
     last_sleep |-> -1,     \* the last backoff sleep of the current call, if any
     override |-> FALSE,    \* some response of the call carried Retry-After
     call |-> NoneEnded,
     max_results |-> 0,
     offset |-> 0,          \* `offset`
     results |-> 0,         \* len(results)
     cps |-> 0,             \* `current_page_size`
     stale |-> 0,           \* `stale_rows_seen`
     slept |-> 0,           \* time slept since the last request was issued
     covered |-> 0]         \* the positions below it came back in some page

NoArgs ==
    [scenario |-> "none", entries |-> PyNone, required_all |-> PyNone,
     any_keywords |-> PyNone, seen |-> {}, cutoff |-> 0,
     main_query |-> PyNone]

Init ==
    /\ MainInit
    /\ cfg \in Configs
    /\ fn = ""
    /\ args = NoArgs
    /\ ret = NoCall
    /\ net = NoNet

Next ==
    \/ Tick
    \/ \E i \in Ids : Publish(i)
    \/ Start
    \/ HttpGetOk
    \/ HttpGetGarbled
    \/ HttpGetRetry
    \/ HttpGetFatal
    \/ HttpGetExhausted
    \/ DeliverAndSave
    \/ FedQueryOk
    \/ FedQueryGarbled
    \/ FedQueryFails
    \/ FedDeliverAndSave

Spec == Init /\ [][Next]_vars


(***************************************************************************)
(* The pure functions on their own: CallSpec draws the arguments of one    *)
(* call from the sets below and applies a function to them.                *)
(***************************************************************************)
\* all lists of at most n elements of S
ListsUpTo(S, n) == UNION {[1..k -> S] : k \in 0..n}

NoTs == [fmt |-> "empty", t |-> 0, off |-> 0]

\* entries that differ in their text: "a"+"b", "A"+"", "b"+"a"
TextEntries ==
    {[id |-> 1, title |-> <<"a">>, summary |-> <<"b">>, published |-> NoTs, updated |-> NoTs],
     [id |-> 2, title |-> <<"A">>, summary |-> <<>>,    published |-> NoTs, updated |-> NoTs],
     [id |-> 3, title |-> <<"b">>, summary |-> <<"a">>, published |-> NoTs, updated |-> NoTs]}

\* items of a keyword list: None, a blank string, words in either case
Tokens    == {PyNone, PyStr(<<" ", " ">>), PyStr(<<"a">>), PyStr(<<"B">>),
              PyStr(<<"a", "b">>)}
AnyTokens == {PyNone, PyStr(<<>>), PyStr(<<"B">>)}

\* what a caller can pass as a keyword parameter: None, one str, a list
KeywordArgs(toks) ==
    {PyNone, PyStr(<<"a", "b">>)} \cup {PyList(q) : q \in ListsUpTo(toks, MaxLen)}

\* texts of timestamps: 1s UTC; 3s at +1s, which is 2s UTC; an RFC 2822 date
\* of 2s UTC; a missing element; an unreadable text
Stamps ==
    {[fmt |-> "iso", t |-> 1, off |-> 0], [fmt |-> "iso", t |-> 3, off |-> 1],
     [fmt |-> "rfc2822", t |-> 2, off |-> 0],
     NoTs, [fmt |-> "garbage", t |-> 0, off |-> 0]}

TimedEntries ==
    {[id |-> 1, title |-> <<"a">>, summary |-> <<>>, published |-> p, updated |-> u] :
        p \in Stamps, u \in Stamps}

\* entries that differ in their id, two of them sharing each id
IdEntries ==
    {[id |-> i, title |-> ti, summary |-> <<>>, published |-> NoTs, updated |-> NoTs] :
        i \in 1..3, ti \in {<<"a">>, <<"b">>}}

\* rows of a Semantic Scholar page: a day as publicationDate (1 or 3), none,
\* or an unreadable one; a year or none
S2Rows ==
    {[id |-> 1, title |-> <<"a">>, abstract |-> <<>>, publicationDate |-> d, year |-> y] :
        d \in {[fmt |-> "iso", t |-> 1, off |-> 0], [fmt |-> "iso", t |-> 3, off |-> 0],
               NoTs, [fmt |-> "garbage", t |-> 0, off |-> 0]},
        y \in {None, Some(0), Some(1)}}

RowsInput(q, c) ==
    [scenario |-> "rows", entries |-> PyList(q), required_all |-> PyNone,
     any_keywords |-> PyNone, seen |-> {}, cutoff |-> c,
     main_query |-> PyNone]

KeywordInput(es, r, a) ==
    [scenario |-> "keywords", entries |-> es, required_all |-> r,
     any_keywords |-> a, seen |-> {}, cutoff |-> 0,
     main_query |-> PyNone]

TimeInput(q, c) ==
    [scenario |-> "time", entries |-> PyList(q), required_all |-> PyNone,
     any_keywords |-> PyNone, seen |-> {}, cutoff |-> c,
     main_query |-> PyNone]

DedupeInput(q, sn) ==
    [scenario |-> "dedupe", entries |-> PyList(q), required_all |-> PyNone,
     any_keywords |-> PyNone, seen |-> sn, cutoff |-> 0,
     main_query |-> PyNone]

\* ARXIV_CATEGORIES, ARXIV_ANY_KEYWORDS and ARXIV_MAIN_QUERY: each unset (or
\* empty), or a text; for the two lists, the items between its commas
CatNames == {"cs.LG", "cs.DC"}
QueryKeywords == {<<"a">>, <<"a", "\"">>}
MainQueries == {<<"all:x">>}

QueryInput(cats, kws, main) ==
    [scenario |-> "query", entries |-> cats, required_all |-> PyNone,
     any_keywords |-> kws, seen |-> {}, cutoff |-> 0,
     main_query |-> main]

CallInit ==
    /\ MainInit
    /\ cfg \in {c \in Configs : c.variant = "topic"}
    /\ fn = ""
    /\ ret = NoCall
    /\ net = NoNet
    /\ \/ \E es \in {PyNone} \cup {PyList(q) : q \in ListsUpTo(TextEntries, MaxLen)},
             r \in KeywordArgs(Tokens), a \in KeywordArgs(AnyTokens) :
               args = KeywordInput(es, r, a)
       \/ \E q \in ListsUpTo(TimedEntries, MaxLen), c \in 2..4 :
               args = TimeInput(q, c)
       \/ \E q \in ListsUpTo(IdEntries, MaxLen), sn \in SUBSET (1..3) :
               args = DedupeInput(q, sn)
       \/ \E q \in ListsUpTo(S2Rows, MaxLen), c \in 2..3 :
               args = RowsInput(q, c)
       \/ \E cats \in {PyNone} \cup {PyList(q) : q \in ListsUpTo(CatNames, MaxLen)},
             kws \in {PyNone} \cup {PyList(q) : q \in ListsUpTo(QueryKeywords, MaxLen)},
             main \in {PyNone} \cup {PyStr(m) : m \in MainQueries} :
               args = QueryInput(cats, kws, main)

Call(name, result) ==
    /\ fn = ""
    /\ fn' = name
    /\ ret' = result
    /\ UNCHANGED <<args, net, mainVars>>

CallFilterByKeywords ==
    /\ args.scenario = "keywords"
    /\ Call("filter_by_keywords",
            filter_by_keywords(args.entries, args.required_all, args.any_keywords))

CallFilterEntries ==
    /\ args.scenario = "keywords"
    /\ Call("filter_entries",
            filter_entries(args.entries, args.required_all, args.any_keywords))

CallFilterByTime ==
    /\ args.scenario = "time"
    /\ Call("filter_by_time", filter_by_time(args.entries.items, args.cutoff))

CallEntriesNewerThan ==
    /\ args.scenario = "time"
    /\ Call("entries_newer_than", entries_newer_than(args.entries.items, args.cutoff))

CallDedupe ==
    /\ args.scenario = "dedupe"
    /\ Call("dedupe", dedupe(args.entries.items, args.seen))

CallDedupeById ==
    /\ args.scenario = "dedupe"
    /\ Call("dedupe_by_id", dedupe_by_id(args.entries.items, args.seen))

CallScriptsWeekly ==
    /\ args.scenario = "time"
    /\ Call("scripts_weekly", Return(scripts_weekly_matches(args.entries.items, args.cutoff)))

CallWeekly ==
    /\ args.scenario = "time"
    /\ Call("weekly", Return(weekly_matches(args.entries.items, args.cutoff)))

CallS2Page ==
    /\ args.scenario = "rows"
    /\ Call("s2_page", Return(s2_page_matches(args.entries.items, args.cutoff)))

CallBuildQuery ==
    /\ args.scenario = "query"
    /\ Call("build_query",
            Return(build_query(args.entries, args.any_keywords, args.main_query)))

\* arxiv_federated_alert.main 270-272: the defaults, then build_search_query
CallBuildSearchQuery ==
    /\ args.scenario = "query"
    /\ Call("build_search_query",
            Return(build_search_query(
                      IF csv(args.entries, <<>>) # <<>> THEN csv(args.entries, <<>>)
                      ELSE DefaultCats,
                      getenv(args.main_query, PyStr(FedDefaultMain)).s)))

CallNext ==
    \/ CallFilterByKeywords
    \/ CallFilterEntries
    \/ CallFilterByTime
    \/ CallEntriesNewerThan
    \/ CallDedupe
    \/ CallDedupeById
    \/ CallScriptsWeekly
    \/ CallWeekly
    \/ CallS2Page
    \/ CallBuildQuery
    \/ CallBuildSearchQuery

CallSpec == CallInit /\ [][CallNext]_vars


(***************************************************************************)
(* One call of a fetcher: FetchSpec.  Each action is one request to the    *)
(* source together with all the call does until its next request.          *)
(***************************************************************************)
MaxOffset    == 12     \* S2_MAX_OFFSET of the runs
MaxRetries   == 4      \* largest max_retries handed to fetch_semantic_scholar
S2MaxResults == 3      \* largest max_results
PageSize     == 20     \* S2_PAGE_SIZE of the runs

\* status codes of the failing responses
Statuses == {400, 429, 500, 503}

\* the Retry-After header: absent, or a number of seconds
RetryAfters == {None, Some(1)}

\* --- http_get ---------------------------------------------------------
HttpGetCall == [NoNet EXCEPT !.who = "http_get", !.pc = "get", !.N = max_retries]

\* the pass of the loop is over after a sleep of sl: `continue`
HttpGetContinue(sl, ra, code) ==
    [net EXCEPT
       !.attempt = @ + 1,
       !.requests = @ + 1,
       !.prev_sleep = net.last_sleep,
       !.last_sleep = sl,
       !.override = @ \/ ~ ra.none,
       !.slept = sl,
       \* range(max_retries) exhausted: the empty feed is returned
       !.pc = IF net.attempt + 1 < max_retries THEN "get" ELSE "returned",
       !.call = IF net.attempt + 1 < max_retries THEN @
                ELSE Ended("empty feed", code, net.requests + 1)]

\* urlopen answers: the body is returned
http_get_ok ==
    /\ net.who = "http_get" /\ net.pc = "get"
    /\ net' = [net EXCEPT !.requests = @ + 1, !.pc = "returned",
                          !.call = Ended("returned", 200, net.requests + 1)]
    /\ UNCHANGED <<fn, args, ret, mainVars>>

\* urlopen raises HTTPError
http_get_http_error ==
    /\ net.who = "http_get" /\ net.pc = "get"
    /\ \E code \in Statuses, ra \in RetryAfters, j \in http_jitter :
         net' = IF http_get_retriable(code)
                THEN HttpGetContinue(
                        Max((IF ra.none THEN 0 ELSE ra.v) * TicksPerSecond,
                            backoff(base_backoff * TicksPerSecond, net.attempt) + j),
                        ra, code)
                ELSE [net EXCEPT !.requests = @ + 1, !.pc = "raised",
                                 !.call = Ended("raised", code, net.requests + 1)]
    /\ UNCHANGED <<fn, args, ret, mainVars>>

\* urlopen raises URLError, TimeoutError or socket.timeout
http_get_url_error ==
    /\ net.who = "http_get" /\ net.pc = "get"
    /\ \E j \in http_jitter :
         net' = HttpGetContinue(
                   backoff(base_backoff * TicksPerSecond, net.attempt) + j, None, 0)
    /\ UNCHANGED <<fn, args, ret, mainVars>>

\* --- fetch_semantic_scholar and _request_with_backoff --------------------
S2Call(N, max_results, page_size) ==
    [NoNet EXCEPT !.who = "s2", !.pc = "get", !.N = N,
                  !.max_results = max_results,
                  !.cps = Max(min_page_size, Least(page_size, max_page_size))]

\* stale_rows_threshold
stale_rows_threshold == Max(stale_floor, Max(min_page_size, Least(PageSize, max_page_size)) * 3)

\* a loop that starts over from the first page
LoopTopRewind(n) ==
    IF n.results < n.max_results /\ n.offset < MaxOffset
    THEN [n EXCEPT !.pc = "get", !.attempt = 0, !.requests = 0, !.offset = 0,
                   !.call = NoneEnded,
                   !.prev_sleep = -1, !.last_sleep = -1, !.override = FALSE]
    ELSE [n EXCEPT !.pc = "returned"]

\* the head of the while loop: another page is requested (by a new call of
\* _request_with_backoff) or the function returns
LoopTop(n) ==
    IF n.results < n.max_results /\ n.offset < MaxOffset
    THEN [n EXCEPT !.pc = "get", !.attempt = 0, !.requests = 0,
                   !.call = NoneEnded,
                   !.prev_sleep = -1, !.last_sleep = -1, !.override = FALSE]
    ELSE [n EXCEPT !.pc = "returned"]

\* `except requests.HTTPError`: _request_with_backoff raised for the status
AfterHTTPError(n, status) ==
    LET e == [n EXCEPT !.call = Ended("raised", status, n.requests),
                       !.slept = 0]
    IN  IF status \in {400, 429} /\ n.cps > min_page_size
        THEN LoopTop([e EXCEPT !.cps = Max(min_page_size, n.cps \div 2),
                               !.offset = n.offset + Max(min_page_size, n.cps \div 2)])
        ELSE [e EXCEPT !.pc = "returned"]

\* the response is 429
request_rate_limited ==
    /\ net.who = "s2" /\ net.pc = "get"
    /\ \E ra \in RetryAfters, j \in s2_jitter :
         LET n == [net EXCEPT !.attempt = @ + 1, !.requests = @ + 1]
         IN  net' = IF retries_exhausted(n.attempt, n.N)
                    THEN AfterHTTPError(n, 429)
                    ELSE LET sl == IF ra.none
                                   THEN backoff(base_sleep, n.attempt - 1) + j
                                   ELSE ra.v * TicksPerSecond
                         IN  [n EXCEPT !.prev_sleep = net.last_sleep,
                                       !.last_sleep = sl,
                                       !.override = @ \/ ~ ra.none,
                                       !.slept = sl]
    /\ UNCHANGED <<fn, args, ret, mainVars>>

\* the response is another error status: raise_for_status raises at once
request_http_error ==
    /\ net.who = "s2" /\ net.pc = "get"
    /\ \E code \in Statuses \ {429} :
         net' = AfterHTTPError([net EXCEPT !.requests = @ + 1], code)
    /\ UNCHANGED <<fn, args, ret, mainVars>>

\* since_dt of the call, a day
s2_since == 2

\* the rows a page is made of: one that is appended, one that is recent but
\* holds no keyword, one that is too old
PageRows ==
    {[id |-> 1, title |-> ti, abstract |-> <<>>, year |-> None,
      publicationDate |-> [fmt |-> "iso", t |-> d, off |-> 0]] :
        ti \in {<<"a">>, <<"b">>}, d \in {1, 3}} \ 
    {[id |-> 1, title |-> <<"b">>, abstract |-> <<>>, year |-> None,
      publicationDate |-> [fmt |-> "iso", t |-> 1, off |-> 0]]}

\* the response is a page of n rows like p, with or without a total
request_page ==
    /\ net.who = "s2" /\ net.pc = "get"
    /\ LET limit == Least(net.cps, net.max_results - net.results)
       IN  \E n \in {0, 1, limit}, p \in PageRows,
              total \in {None, Some(net.offset + 1)} :
             LET room == net.max_results - net.results
                 \* rows appended before `len(results) >= max_results` breaks
                 got  == IF s2_appended(p, s2_since) THEN Least(n, room) ELSE 0
                 r    == [net EXCEPT
                            !.requests = @ + 1,
                            !.call = Ended("returned", 200, net.requests + 1),
                            !.slept = 0]
                 q    == [r EXCEPT
                            !.results = @ + got,
                            !.stale = IF s2_keep(p, s2_since) THEN @ ELSE @ + n,
                            !.covered = IF net.offset <= @ /\ @ < net.offset + n
                                        THEN net.offset + n ELSE @,
                            !.offset = @ + n]
             IN  net' = IF n = 0 THEN [r EXCEPT !.pc = "returned"]
                        ELSE IF ~ total.none /\ q.offset >= total.v
                        THEN [q EXCEPT !.pc = "returned"]
                        ELSE IF q.stale >= stale_rows_threshold /\ q.results = 0
                        THEN [q EXCEPT !.pc = "returned"]
                        ELSE LoopTop([q EXCEPT !.slept = delay])
    /\ UNCHANGED <<fn, args, ret, mainVars>>

\* one call of http_get, or of fetch_semantic_scholar with one of the
\* max_retries in Ns
FetchInitOf(Ns) ==
    /\ MainInit
    /\ cfg \in {c \in Configs : c.variant = "topic"}
    /\ fn = ""
    /\ args = NoArgs
    /\ ret = NoCall
    /\ \/ net = HttpGetCall
       \/ \E N \in Ns, m \in {1, S2MaxResults} : net = S2Call(N, m, PageSize)

FetchInit == FetchInitOf(0..MaxRetries)

FetchNext ==
    \/ http_get_ok
    \/ http_get_http_error
    \/ http_get_url_error
    \/ request_rate_limited
    \/ request_http_error
    \/ request_page

FetchSpec == FetchInit /\ [][FetchNext]_vars

\* the call keeps running: while a request is pending it is issued and answered
FetchLiveSpec ==
    FetchInitOf({0, MaxRetries}) /\ [][FetchNext]_vars /\ WF_vars(FetchNext)


(***************************************************************************)
(* main() over a state file it did not write: StoreSpec starts the runs of *)
(* Spec from each of the files below.                                      *)
(***************************************************************************)
\* what an earlier run left: it had seen record 1 and ran at second 0
SavedBefore ==
    [EmptyDict EXCEPT !.has_seen = TRUE, !.seen_ids = JList(<<1>>),
                      !.has_last = TRUE, !.last_run_iso = JIso(0)]

StateTexts ==
    {SubSeq(json_dump(SavedBefore), 1, Len(json_dump(SavedBefore)) - 1),
                                                           \* a cut-off text
     json_dump(EmptyArray),                                \* []
     json_dump([EmptyDict EXCEPT !.has_seen = TRUE]),      \* {"seen_ids": null}
     json_dump([EmptyDict EXCEPT !.has_last = TRUE, !.last_run_iso = JText]),
     json_dump(SavedBefore)}

StateFiles ==
    {NoFile, [exists |-> TRUE, readable |-> FALSE, content |-> <<>>]}
    \cup {[exists |-> TRUE, readable |-> TRUE, content |-> t] : t \in StateTexts}

\* the start of a run of main() that follows `before` earlier runs, over one
\* of the state files fs and one of the configurations cs
InitAfter(before, fs, cs) ==
    /\ now = 0
    /\ remote = [i \in Ids |-> Absent]
    /\ file \in fs
    /\ pc = "idle"
    /\ attempt = 0
    /\ state = EmptyDict
    /\ seen = {}
    /\ cutoff = 0
    /\ entries_raw = <<>>
    /\ after_time = <<>>
    /\ after_kw = <<>>
    /\ entries = <<>>
    /\ shown = <<>>
    /\ sent = {}
    /\ exit = -1
    /\ hist = [NoHist EXCEPT !.runs = before]
    /\ cfg \in cs
    /\ fn = ""
    /\ args = NoArgs
    /\ ret = NoCall
    /\ net = NoNet

\* the file is what came before this run
StoreInit == InitAfter(1, StateFiles, Configs)

StoreSpec == StoreInit /\ [][Next]_vars


(***************************************************************************)
(* The process dies inside save_state: CrashSpec.  open(path, "w") has     *)
(* emptied the file and json.dump has written only the first k tokens of   *)
(* the new text when the process is killed.                                *)
(***************************************************************************)
\* the file a write of text that stopped after k tokens leaves
partly_written(text, k) ==
    [exists |-> TRUE, readable |-> TRUE, content |-> SubSeq(text, 1, k)]

\* the sends of one run, then save_state is entered and never left
DeliverInterrupted(wanted) ==
    \E emailOk, slackOk \in BOOLEAN :
       LET em == email_attempted(wanted, cfg.smtp)
           sl == slack_attempted(wanted, cfg.slack, em /\ ~ emailOk)
       IN  /\ CanWrite(file)
           /\ sent' = (IF em /\ emailOk THEN {"email"} ELSE {})
                      \cup (IF sl /\ slackOk THEN {"slack"} ELSE {})
           /\ seen' = seen_update(seen, entries)
           /\ state' = [state EXCEPT
                 !.has_seen = TRUE, !.seen_ids = JList(sorted(seen')),
                 !.has_last = TRUE, !.last_run_iso = JIso(isoformat(now))]
           /\ \E k \in 0..(Len(json_dump(state')) - 1) :
                 file' = partly_written(json_dump(state'), k)
           /\ pc' = "raised"
           /\ hist' = [hist EXCEPT
                 !.cut = TRUE,
                 !.tried = (IF em THEN {"email"} ELSE {})
                           \cup (IF sl THEN {"slack"} ELSE {}),
                 !.failed = (IF em /\ ~ emailOk THEN {"email"} ELSE {})
                            \cup (IF sl /\ ~ slackOk THEN {"slack"} ELSE {})]

\* either script, killed during the save_state that ends main()
SaveInterrupted ==
    /\ pc = "digested"
    /\ DeliverInterrupted(cfg.variant = "federated" \/ entries # <<>>)
    /\ UNCHANGED <<callVars, now, remote, attempt, cutoff, entries_raw,
                   after_time, after_kw, entries, shown, exit, cfg>>

CrashNext == Next \/ SaveInterrupted

\* runs that start with no state file or with the one an earlier run left
CrashInit ==
    InitAfter(0, {NoFile, [exists |-> TRUE, readable |-> TRUE,
                           content |-> json_dump(SavedBefore)]}, Configs)

CrashSpec == CrashInit /\ [][CrashNext]_vars


(***************************************************************************)
(* main() under each configuration of the sinks: DeliverSpec.              *)
(***************************************************************************)
\* SMTP_HOST / SMTP_FROM / SMTP_TO and SLACK_WEBHOOK_URL set or not
SinkConfigs ==
    {[c EXCEPT !.smtp = m, !.slack = k] : c \in Configs, m \in BOOLEAN, k \in BOOLEAN}

\* a run that finds no state file
DeliverInit == InitAfter(1, {NoFile}, SinkConfigs)

DeliverSpec == DeliverInit /\ [][Next]_vars


(***************************************************************************)
(* Properties of main(), checked under Spec.                               *)
(***************************************************************************)
Completed == pc = "done" /\ exit = 0

SavedSeen == set_seen_ids(load_state(file)).v

\* C1 (idempotence): when a run that ended with status 0 is followed at once
\* by a run that is given the same records, the second run has no entry left
\* after dedupe, sends nothing to any sink, and persists the seen set the
\* first run persisted (the one it loaded).
C1_Idempotent ==
    (Completed /\ hist.same) =>
        /\ entries = <<>>
        /\ sent = {}
        /\ SavedSeen = hist.loaded

\* a second run over the records the first one reported
C1_Witness ==
    /\ Completed /\ hist.same
    /\ entries_raw # <<>>
    /\ after_kw # <<>>
    /\ hist.loaded # {}

\* C2 (as claimed): after a completed run the persisted seen_ids are the loaded
\* ones plus exactly the ids of the records rendered in that run's digest.
C2_PersistsExactlyDigested ==
    Completed => SavedSeen = hist.loaded \cup IdsOf(shown)

\* C3 (as claimed): every run that main returns from, whatever happened to the
\* fetch, has called save_state with a newly stamped last_run_iso.
C3_EveryPathPersists ==
    pc = "done" => (hist.saved /\ load_state(file).has_last)

\* the instant record i carries, in ticks
EffTick(i) == remote[i].sec * TicksPerSecond

\* record i satisfies the keyword policy of the runs
Matches(i) ==
    KeepByKeywords(Entry(i, cfg.fmt), LowerAll(required_all_env).out,
                   LowerAll(any_keywords_env).out)

\* C4 (as claimed, in the form a finite run decides): when a run completes,
\* every record the source has offered so far that satisfies the keyword
\* policy and is dated at or after the first run's cutoff and before the
\* last_run_iso just stamped (so that no later cutoff can admit it) has
\* appeared in the digest of some run.
C4_NoRecordLost ==
    Completed =>
        \A i \in hist.offered :
            (/\ Matches(i)
             /\ EffTick(i) >= hist.firstCutoff
             /\ EffTick(i) < cutoff_of(load_state(file), 0).v)
            => i \in hist.digested

(***************************************************************************)
(* Properties of the pure functions, checked under CallSpec.               *)
(***************************************************************************)
Items == args.entries.items

\* C5: dedupe and dedupe_by_id return exactly the entries whose id is not in
\* the seen set, in their order, and leave the seen set as it was.
C5_DedupeExact ==
    fn \in {"dedupe", "dedupe_by_id"} =>
        /\ ret.exc = ""
        /\ ret.out = SelectSeq(Items, LAMBDA e : e.id \notin args.seen)
        /\ ret.seen = args.seen

\* a call that drops the first of two entries and keeps the second
C5_Witness ==
    /\ fn = "dedupe"
    /\ Len(Items) = 2 /\ Len(ret.out) = 1
    /\ ret.out[1] = Items[2]
    /\ Items[1].id \in args.seen

MaxOf(a, b) == IF a >= b THEN a ELSE b

BothPresent(e) ==
    /\ e.published.fmt \in {"iso", "rfc2822"}
    /\ e.updated.fmt \in {"iso", "rfc2822"}

\* C6 (as claimed): for entries that carry both timestamps, filter_by_time and
\* entries_newer_than keep an entry iff the later of the two instants is at
\* or after the cutoff (the cutoff itself included).
C6_TimeFilterInclusive ==
    (/\ fn \in {"filter_by_time", "entries_newer_than"}
     /\ \A k \in 1..Len(Items) : BothPresent(Items[k]))
    => /\ ret.exc = ""
       /\ ret.out = SelectSeq(Items, LAMBDA e :
              MaxOf(UtcInstant(e.published), UtcInstant(e.updated)) >= args.cutoff)

StrList(v) ==
    /\ v.kind = "list"
    /\ \A k \in 1..Len(v.items) : v.items[k].kind = "str"

\* the keyword policy over a haystack and two lists of strings
Policy(hay, r, a) ==
    /\ \/ r.items = <<>>
       \/ \A k \in 1..Len(r.items) : Contains(hay, Lower(r.items[k].s))
    /\ \/ a.items = <<>>
       \/ \E k \in 1..Len(a.items) : Contains(hay, Lower(a.items[k].s))

KeywordListCall ==
    /\ fn \in {"filter_by_keywords", "filter_entries"}
    /\ args.entries.kind = "list"
    /\ StrList(args.required_all)
    /\ StrList(args.any_keywords)

NoneAsEmpty(v) == IF v.kind = "none" THEN PyList(<<>>) ELSE v

\* C8 (as claimed): in filter_by_keywords an argument that is None behaves as
\* the empty list and nothing is raised.
C8_NoneIsEmpty ==
    (/\ fn = "filter_by_keywords"
     /\ \/ args.entries.kind = "none"
        \/ args.required_all.kind = "none"
        \/ args.any_keywords.kind = "none"
     /\ StrList(NoneAsEmpty(args.required_all))
     /\ StrList(NoneAsEmpty(args.any_keywords)))
    => /\ ret.exc = ""
       /\ ret.out = SelectSeq(Items, LAMBDA e :
              Policy(Haystack(e), NoneAsEmpty(args.required_all),
                     NoneAsEmpty(args.any_keywords)))

\* the list without its None, empty and whitespace-only items
WithoutBlanks(v) ==
    PyList(SelectSeq(v.items, LAMBDA x : x.kind = "str" /\ ~ IsBlank(x.s)))

\* C9 (as claimed): filter_by_keywords gives the result it gives for the
\* lists with their blank tokens removed.
C9_BlanksIgnored ==
    (/\ fn = "filter_by_keywords"
     /\ args.entries.kind = "list"
     /\ args.required_all.kind = "list"
     /\ args.any_keywords.kind = "list")
    => /\ ret.exc = ""
       /\ ret.out = SelectSeq(Items, LAMBDA e :
              Policy(Haystack(e), WithoutBlanks(args.required_all),
                     WithoutBlanks(args.any_keywords)))

StrAsList(v) == IF v.kind = "str" THEN PyList(<<PyStr(v.s)>>) ELSE v

\* C10 (as claimed): a keyword parameter given as one string acts as the list
\* holding that string: the whole string must occur in the haystack.
C10_StringIsOneKeyword ==
    (/\ fn = "filter_by_keywords"
     /\ args.entries.kind = "list"
     /\ \/ args.required_all.kind = "str"
        \/ args.any_keywords.kind = "str"
     /\ StrList(StrAsList(args.required_all))
     /\ StrList(StrAsList(args.any_keywords)))
    => /\ ret.exc = ""
       /\ ret.out = SelectSeq(Items, LAMBDA e :
              Policy(Haystack(e), StrAsList(args.required_all),
                     StrAsList(args.any_keywords)))

(***************************************************************************)
(* Properties of the state store, checked under StoreSpec.                 *)
(***************************************************************************)
\* the file holds a mapping whose seen_ids is a list of strings and whose
\* last_run_iso is the text of an instant, each if present
WellFormedState(f) ==
    /\ f.exists /\ f.readable
    /\ json_load(f.content).ok
    /\ LET d == json_load(f.content).val
       IN  /\ d.kind = "dict"
           /\ d.has_seen => d.seen_ids.k = "list"
           /\ d.has_last => d.last_run_iso.k = "iso"

\* C11 (as claimed): when main starts on a state file that is missing,
\* unreadable, not JSON, not a mapping, or a mapping with an ill-formed field,
\* it goes on to the fetch with an empty seen set and the fallback cutoff
\* now - ARXIV_DAYS_BACK; it does not end on an exception.
C11_LoadFailsSoft ==
    [][(/\ pc \in {"idle", "done", "raised"}
        /\ hist'.runs = hist.runs + 1
        /\ ~ WellFormedState(file))
       => (/\ pc' = "fetch"
           /\ seen' = {}
           /\ cutoff' = now - DaysBack)]_vars

\* C12: whenever main has saved its state, loading the file again and decoding
\* it as main does gives the seen set main held and the instant it stamped.
C12_RoundTrip ==
    (pc = "done" /\ hist.saved) =>
        /\ load_state(file).kind = "dict"
        /\ set_seen_ids(load_state(file)) = [exc |-> "", v |-> seen]
        /\ cutoff_of(load_state(file), -1) =
              [exc |-> "", v |-> fromisoformat(state.last_run_iso.n)]

\* a run that saved two ids and a last-run instant after second 0
C12_Witness ==
    /\ pc = "done" /\ hist.saved
    /\ Cardinality(seen) = 2
    /\ seen = SavedSeen
    /\ state.last_run_iso.n > 0

(***************************************************************************)
(* Properties of the delivery, checked under DeliverSpec.                  *)
(***************************************************************************)
\* C13: a run that reached the sends with entries to send has ended with
\* status 0 and the state saved (seen_ids grown by the ids of the entries,
\* last_run_iso stamped), whatever each send did; every configured sink was
\* attempted, Slack also when the email raised.
C13_DeliveryIsolated ==
    (pc \in {"done", "raised"} /\ entries # <<>>) =>
        /\ pc = "done" /\ exit = 0
        /\ hist.saved
        /\ SavedSeen = hist.loaded \cup IdsOf(entries)
        /\ load_state(file).has_last
        /\ load_state(file).last_run_iso = state.last_run_iso
        /\ state.last_run_iso.k = "iso"
        /\ cfg.smtp => "email" \in hist.tried
        /\ cfg.slack => "slack" \in hist.tried

\* a run whose email raised, whose Slack post went out, and which saved
C13_Witness ==
    /\ pc = "done" /\ exit = 0 /\ hist.saved
    /\ "email" \in hist.failed
    /\ "slack" \in sent
    /\ IdsOf(entries) # {} /\ IdsOf(entries) \subseteq SavedSeen

(***************************************************************************)
(* Exit status, checked under Spec.                                        *)
(***************************************************************************)
\* C14 (as claimed): the status main returns is 0 exactly when the fetch of
\* the run obtained a response it could parse, and non-zero when the source
\* stayed out of reach through every retry.
C14_ExitTellsFetchFailure ==
    pc = "done" => (exit = 0 <=> hist.answered)

(***************************************************************************)
(* Records without a date, checked under CallSpec.                         *)
(***************************************************************************)
Readable(ts) == ts.fmt \in {"iso", "rfc2822"}

\* the record carries no timestamp a date filter could use
NoTimestamp(e) ==
    IF args.scenario = "rows"
    THEN parse_pubdate_utc(e.publicationDate).none /\ e.year.none
    ELSE ~ Readable(e.published) /\ ~ Readable(e.updated)

\* C15 (as claimed): the date filter of every script returns without raising
\* and its output holds no record that carries no timestamp.
C15_UndatedDiscarded ==
    fn \in {"filter_by_time", "entries_newer_than", "scripts_weekly", "weekly",
            "s2_page"} =>
        /\ ret.exc = ""
        /\ \A k \in 1..Len(ret.out) : ~ NoTimestamp(ret.out[k])

(***************************************************************************)
(* Properties of the fetchers, checked under FetchSpec.                    *)
(***************************************************************************)
\* C16: a call of _request_with_backoff with max_retries = N never issues
\* more than N + 1 requests; while it runs every response so far was a 429
\* and at most N of them came; when it raises for a 429 it has issued
\* exactly N + 1 requests.
C16_RetryBound ==
    net.who = "s2" =>
        /\ net.requests <= net.N + 1
        /\ net.pc = "get" => (net.attempt = net.requests /\ net.attempt <= net.N)
        /\ (net.call.outcome = "raised" /\ net.call.status = 429)
              => net.call.requests = net.N + 1

\* max_retries = 4: the fifth 429 in a row was raised to the caller
C16_Witness ==
    /\ net.who = "s2" /\ net.N = 4
    /\ net.call = Ended("raised", 429, 5)

\* C17: within one call, while no response carried Retry-After, each backoff
\* sleep is at least as long as the one before it, whatever the jitter.
C17_BackoffMonotone ==
    (~ net.override /\ net.prev_sleep >= 0) => net.last_sleep >= net.prev_sleep

\* a call of each fetcher that has slept three times without a Retry-After
C17_Witness ==
    /\ net.who = "s2"
    /\ net.attempt >= 3 /\ ~ net.override
    /\ net.prev_sleep >= 0 /\ net.last_sleep > net.prev_sleep

\* C18 (as claimed): a fetcher raises a 429 or a 5xx status to its caller
\* only when no retry is left (for _request_with_backoff: after N + 1
\* requests; http_get never raises one).
C18_TransientRetried ==
    (net.call.outcome = "raised" /\ net.call.status \in {429, 500, 503}) =>
        /\ net.who = "s2"
        /\ net.call.status = 429
        /\ net.call.requests = net.N + 1

\* C19: every call of fetch_semantic_scholar returns, whatever the source
\* answers to each request, and it issues a request only while fewer than
\* max_results records are gathered and the offset is below the cap.
C19_PaginationTerminates ==
    (net.who = "s2") =>
        /\ <>(net.pc = "returned")
        /\ [](net.pc = "get" =>
                (net.results < net.max_results /\ net.offset < MaxOffset))

\* a call that stopped at the offset cap with fewer than max_results records
C19_Witness ==
    /\ net.who = "s2" /\ net.pc = "returned"
    /\ net.offset >= MaxOffset
    /\ net.results < net.max_results

\* C20 (as claimed): when the first request for a page at a later offset is
\* about to be issued, at least `delay` was slept since the request before it.
C20_PoliteBetweenPages ==
    (/\ net.who = "s2" /\ net.pc = "get"
     /\ net.requests = 0 /\ net.offset > 0)
    => net.slept >= delay

(***************************************************************************)
(* Properties of save_state under a crash, checked under CrashSpec.        *)
(***************************************************************************)
\* C21 (as claimed): after the process died inside save_state, what the next
\* load_state returns is a completely saved state: it holds the seen ids the
\* file held before the save (those the run loaded) or the ones being saved.
C21_CrashAtomicSave ==
    hist.cut => SavedSeen \in {hist.loaded, seen}

(***************************************************************************)
(* Properties of the query builders, checked under CallSpec.               *)
(***************************************************************************)
\* C22 (as claimed): when ARXIV_MAIN_QUERY is supplied and there are
\* categories, the query built by either script is the parenthesized OR of
\* the category clauses, AND, the override (in parentheses or not), and
\* nothing else: it holds no ti: or abs: clause of a keyword.
C22_OverrideReplacesKeywords ==
    (/\ fn \in {"build_query", "build_search_query"}
     /\ args.main_query.kind = "str"
     /\ csv(args.entries, DefaultCats) # <<>>)
    => LET cats == <<Lit("(")>> \o cats_expr(csv(args.entries, DefaultCats))
                   \o <<Lit(")"), Lit("AND")>>
           main == Verbatim(args.main_query.s)
       IN  ret.out \in {cats \o <<main>>, cats \o <<Lit("("), main, Lit(")")>>}


(***************************************************************************)
(* Pagination, checked under FetchSpec.                                    *)
(***************************************************************************)
\* C23 (as claimed): whenever fetch_semantic_scholar is about to issue a
\* page request at offset o, every position below o came back in the page
\* of an earlier request that succeeded.
C23_NoGap ==
    (net.who = "s2" /\ net.pc = "get") => net.covered >= net.offset

====
